---- MODULE Spec2Model ----
(***************************************************************************)
(* yamltrimmer: trim() and the recursive projection filterByRules() of     *)
(* cmd/yamltrimmer.go, over a heap of yaml.Node values addressed by        *)
(* pointer (here: index into heap).                                        *)
(***************************************************************************)
EXTENDS Integers, Sequences, FiniteSets, TLC

\* Bounds of the explored inputs.
MaxDocPairs == 3     \* key/value pairs in the whole input document
MaxRuleNodes == 3    \* IncludeConfigItem values in the whole rule forest

Keys == {"a", "b"}
MappingStyles == {"", "FlowStyle"}

(***************************************************************************)
(* yaml.Node values (the fields the program reads or writes).              *)
(***************************************************************************)
Node(kind, style, tag, value, content) ==
    [Kind |-> kind, Style |-> style, Tag |-> tag, Value |-> value, Content |-> content]

\* `var outputNode yaml.Node`: the zero value.
ZeroNode == Node("", "", "", "", <<>>)

ScalarNode(v) == Node("ScalarNode", "", "!!str", v, <<>>)
NullNode == Node("ScalarNode", "", "!!null", "null", <<>>)
SequenceNode == Node("SequenceNode", "", "!!seq", "", <<ScalarNode("1")>>)
MappingNode(style, content) == Node("MappingNode", style, "!!map", "", content)
DocumentNode(content) == Node("DocumentNode", "", "", "", content)

\* Values that are not mappings: scalar, null, sequence.
Leaves == {ScalarNode("1"), NullNode, SequenceNode}

\* Contents (key, value, key, value, ...) of a mapping holding exactly n
\* pairs, nested ones included; keys may repeat.
RECURSIVE ContentsOf(_)
RECURSIVE ValuesOf(_)
ContentsOf(n) ==
    IF n = 0 THEN {<<>>}
    ELSE UNION { { <<ScalarNode(k), v>> \o rest :
                     k \in Keys, v \in ValuesOf(m - 1), rest \in ContentsOf(n - m) }
                 : m \in 1..n }
ValuesOf(n) ==
    IF n = 0 THEN Leaves \cup { MappingNode(s, <<>>) : s \in MappingStyles }
    ELSE { MappingNode(s, c) : s \in MappingStyles, c \in ContentsOf(n) }

\* What yaml.Unmarshal leaves in `root`: the zero node for empty input,
\* otherwise a document node around the single top-level node.
ParsedRoots ==
    {ZeroNode}
      \cup { DocumentNode(<<v>>) : v \in Leaves }
      \cup { DocumentNode(<<MappingNode(s, c)>>) :
               s \in MappingStyles, c \in UNION { ContentsOf(n) : n \in 0..MaxDocPairs } }

(***************************************************************************)
(* IncludeConfigItem forests.                                              *)
(***************************************************************************)
IncludeConfigItem(key, include) == [Key |-> key, Include |-> include]

RECURSIVE IncludesOf(_)
IncludesOf(n) ==
    IF n = 0 THEN {<<>>}
    ELSE UNION { { <<IncludeConfigItem(k, inc)>> \o rest :
                     k \in Keys, inc \in IncludesOf(m - 1), rest \in IncludesOf(n - m) }
                 : m \in 1..n }

RuleForests == UNION { IncludesOf(n) : n \in 0..MaxRuleNodes }

(***************************************************************************)
(* Loading a parsed tree into the heap: children first, the node last, so  *)
(* that the root is the last node of the heap.                             *)
(***************************************************************************)
RECURSIVE Load(_, _)
RECURSIVE LoadSeq(_, _)
Load(t, h) ==
    LET r == LoadSeq(t.Content, h)
    IN  Append(r.heap, [t EXCEPT !.Content = r.ids])
LoadSeq(ts, h) ==
    IF ts = <<>> THEN [heap |-> h, ids |-> <<>>]
    ELSE LET h1 == Load(Head(ts), h)
             r == LoadSeq(Tail(ts), h1)
         IN  [heap |-> r.heap, ids |-> <<Len(h1)>> \o r.ids]

\* The tree below a pointer.
RECURSIVE TreeOf(_, _)
TreeOf(h, p) ==
    [h[p] EXCEPT !.Content = [j \in 1..Len(h[p].Content) |-> TreeOf(h, h[p].Content[j])]]

(***************************************************************************)
(* State.                                                                  *)
(***************************************************************************)
VARIABLES
    input,       \* trim's `input`, as the tree its text denotes
    heap,        \* all yaml.Node values, by pointer
    root,        \* pointer of trim's `root`
    nInput,      \* number of nodes the parser built
    rules,       \* config.Include
    stack,       \* activation records of filterByRules, innermost last
    outputNode,  \* pointer of trim's `outputNode` (0: not declared yet)
    status,      \* where trim is
    result,      \* pointer of the node trim encoded and returned (0: none)
    pass,        \* 1: trim; 2: the projection applied again to its own output
    firstOutput  \* pointer of the first pass' output (0 during pass 1)

vars == <<input, heap, root, nInput, rules, stack, outputNode, status, result, pass, firstOutput>>

Frame(rs, inp, out) ==
    [rules |-> rs, inputNode |-> inp, outputNode |-> out, r |-> 1, i |-> 0, pc |-> "enter"]

Top == stack[Len(stack)]
Running == status = "filtering" /\ stack # <<>>

Init ==
    /\ input \in ParsedRoots
    /\ heap = Load(input, <<>>)
    /\ root = Len(heap)
    /\ nInput = Len(heap)
    /\ rules \in RuleForests
    /\ stack = <<>>
    /\ outputNode = 0
    /\ status = "parsed"
    /\ result = 0
    /\ pass = 1
    /\ firstOutput = 0

(***************************************************************************)
(* Heap updates of filterByRules.                                          *)
(***************************************************************************)
\* Variant: the kind of the output node is left unset.
SetStyleOnly(h, inp, out) ==
    [h EXCEPT ![out].Style = h[inp].Style]

\* Variant: the style of the input mapping is not copied.
SetKindOnly(h, inp, out) ==
    [h EXCEPT ![out].Kind = "MappingNode"]

\* outputNode.Kind = yaml.MappingNode; outputNode.Style = inputNode.Style
SetKindStyle(h, inp, out) ==
    [h EXCEPT ![out].Kind = "MappingNode", ![out].Style = h[inp].Style]

\* Variant: the node is put in front of the content.
AppendContentFront(h, inp, out, n) ==
    [h EXCEPT ![out].Content = <<n>> \o @]

\* Variant: the node is appended to the input mapping.
AppendContentToInput(h, inp, out, n) ==
    [h EXCEPT ![inp].Content = Append(@, n)]

\* outputNode.Content = append(outputNode.Content, n)
AppendContent(h, inp, out, n) ==
    [h EXCEPT ![out].Content = Append(@, n)]

\* keyNode.Value == rule.Key
KeyMatches(keyNode, rule) == keyNode.Value = rule.Key

\* len(rule.Include) > 0
HasNested(rule) == Len(rule.Include) > 0

SetTop(f) == [stack EXCEPT ![Len(stack)] = f]

(***************************************************************************)
(* trim                                                                    *)
(***************************************************************************)
\* len(root.Content) == 0: "no content in the input YAML"
TrimEmpty ==
    /\ status = "parsed"
    /\ Len(heap[root].Content) = 0
    /\ status' = "error"
    /\ UNCHANGED <<input, heap, root, nInput, rules, stack, outputNode, result, pass, firstOutput>>

\* root = *root.Content[0]; var outputNode yaml.Node;
\* filterByRules(rules, &root, &outputNode)
TrimCall ==
    /\ status = "parsed"
    /\ Len(heap[root].Content) = 1
    /\ heap' = Append([heap EXCEPT ![root] = heap[heap[root].Content[1]]], ZeroNode)
    /\ outputNode' = Len(heap) + 1
    /\ stack' = <<Frame(rules, root, Len(heap) + 1)>>
    /\ status' = "filtering"
    /\ UNCHANGED <<input, root, nInput, rules, result, pass, firstOutput>>

\* encoder.Encode(&outputNode); return output.Bytes(), nil
TrimReturn ==
    /\ status = "filtered"
    /\ result' = outputNode
    /\ status' = "returned"
    /\ UNCHANGED <<input, heap, root, nInput, rules, stack, outputNode, pass, firstOutput>>

(***************************************************************************)
(* filterByRules                                                           *)
(***************************************************************************)
\* Variant: a value that is no mapping yields an empty output, silently.
EnterFatalSwallowed ==
    /\ Running
    /\ Top.pc = "enter"
    /\ heap[Top.inputNode].Kind # "MappingNode"
    /\ stack' = SetTop([Top EXCEPT !.pc = "loop", !.r = Len(Top.rules) + 1])
    /\ UNCHANGED <<input, heap, root, nInput, rules, outputNode, status, result, pass, firstOutput>>

\* inputNode.Kind != yaml.MappingNode: logrus.Fatalf, the process exits.
EnterFatal ==
    /\ Running
    /\ Top.pc = "enter"
    /\ heap[Top.inputNode].Kind # "MappingNode"
    /\ status' = "fatal"
    /\ UNCHANGED <<input, heap, root, nInput, rules, stack, outputNode, result, pass, firstOutput>>

EnterMapping ==
    /\ Running
    /\ Top.pc = "enter"
    /\ heap[Top.inputNode].Kind = "MappingNode"
    /\ heap' = SetKindStyle(heap, Top.inputNode, Top.outputNode)
    /\ stack' = SetTop([Top EXCEPT !.pc = "loop"])
    /\ UNCHANGED <<input, root, nInput, rules, outputNode, status, result, pass, firstOutput>>

InLoop ==
    /\ Running
    /\ Top.pc = "loop"
    /\ Top.r <= Len(Top.rules)

Rule == Top.rules[Top.r]
InputContent == heap[Top.inputNode].Content
KeyPtr == InputContent[Top.i + 1]
ValuePtr == InputContent[Top.i + 2]

\* the pair at i has another key: i += 2
ScanMiss ==
    /\ InLoop
    /\ Top.i < Len(InputContent)
    /\ ~KeyMatches(heap[KeyPtr], Rule)
    /\ stack' = SetTop([Top EXCEPT !.i = @ + 2])
    /\ UNCHANGED <<input, heap, root, nInput, rules, outputNode, status, result, pass, firstOutput>>

\* Variant: an unmatched rule with nested rules is a fatal error.
ScanExhaustedStrict ==
    /\ InLoop
    /\ Top.i >= Len(InputContent)
    /\ IF HasNested(Rule)
       THEN status' = "fatal" /\ UNCHANGED stack
       ELSE stack' = SetTop([Top EXCEPT !.r = @ + 1, !.i = 0]) /\ UNCHANGED status
    /\ UNCHANGED <<input, heap, root, nInput, rules, outputNode, result, pass, firstOutput>>

\* the inner loop ends without a match: next rule
ScanExhausted ==
    /\ InLoop
    /\ Top.i >= Len(InputContent)
    /\ stack' = SetTop([Top EXCEPT !.r = @ + 1, !.i = 0])
    /\ UNCHANGED <<input, heap, root, nInput, rules, outputNode, status, result, pass, firstOutput>>

\* Variant: the value is copied without its content.
MatchLeafShallow ==
    /\ InLoop
    /\ Top.i < Len(InputContent)
    /\ KeyMatches(heap[KeyPtr], Rule)
    /\ ~HasNested(Rule)
    /\ heap' = AppendContent(
                 AppendContent(Append(heap, [heap[ValuePtr] EXCEPT !.Content = <<>>]),
                               Top.inputNode, Top.outputNode, KeyPtr),
                 Top.inputNode, Top.outputNode, Len(heap) + 1)
    /\ stack' = SetTop([Top EXCEPT !.r = @ + 1, !.i = 0])
    /\ UNCHANGED <<input, root, nInput, rules, outputNode, status, result, pass, firstOutput>>

\* Variant: no break after the match, the scan goes on with the same rule.
MatchLeafNoBreak ==
    /\ InLoop
    /\ Top.i < Len(InputContent)
    /\ KeyMatches(heap[KeyPtr], Rule)
    /\ ~HasNested(Rule)
    /\ heap' = AppendContent(
                 AppendContent(heap, Top.inputNode, Top.outputNode, KeyPtr),
                 Top.inputNode, Top.outputNode, ValuePtr)
    /\ stack' = SetTop([Top EXCEPT !.i = @ + 2])
    /\ UNCHANGED <<input, root, nInput, rules, outputNode, status, result, pass, firstOutput>>

\* match, no nested rules: append key and value, break
MatchLeaf ==
    /\ InLoop
    /\ Top.i < Len(InputContent)
    /\ KeyMatches(heap[KeyPtr], Rule)
    /\ ~HasNested(Rule)
    /\ heap' = AppendContent(
                 AppendContent(heap, Top.inputNode, Top.outputNode, KeyPtr),
                 Top.inputNode, Top.outputNode, ValuePtr)
    /\ stack' = SetTop([Top EXCEPT !.r = @ + 1, !.i = 0])
    /\ UNCHANGED <<input, root, nInput, rules, outputNode, status, result, pass, firstOutput>>

\* match, nested rules: append key, declare nestedOutputNode, recurse
MatchNested ==
    /\ InLoop
    /\ Top.i < Len(InputContent)
    /\ KeyMatches(heap[KeyPtr], Rule)
    /\ HasNested(Rule)
    /\ heap' = Append(AppendContent(heap, Top.inputNode, Top.outputNode, KeyPtr), ZeroNode)
    /\ stack' = Append(stack, Frame(Rule.Include, ValuePtr, Len(heap) + 1))
    /\ UNCHANGED <<input, root, nInput, rules, outputNode, status, result, pass, firstOutput>>

\* Variant: the matched value itself is appended, not the nested output.
ReturnNestedFullValue ==
    /\ Running
    /\ Top.pc = "loop"
    /\ Top.r > Len(Top.rules)
    /\ Len(stack) > 1
    /\ LET caller == stack[Len(stack) - 1]
       IN  /\ heap' = AppendContent(heap, caller.inputNode, caller.outputNode,
                                    heap[caller.inputNode].Content[caller.i + 2])
           /\ stack' = [SubSeq(stack, 1, Len(stack) - 1) EXCEPT
                          ![Len(stack) - 1] = [caller EXCEPT !.r = @ + 1, !.i = 0]]
    /\ UNCHANGED <<input, root, nInput, rules, outputNode, status, result, pass, firstOutput>>

\* Variant: no break after the nested call, the scan goes on with the same rule.
ReturnNestedNoBreak ==
    /\ Running
    /\ Top.pc = "loop"
    /\ Top.r > Len(Top.rules)
    /\ Len(stack) > 1
    /\ LET caller == stack[Len(stack) - 1]
       IN  /\ heap' = AppendContent(heap, caller.inputNode, caller.outputNode, Top.outputNode)
           /\ stack' = [SubSeq(stack, 1, Len(stack) - 1) EXCEPT
                          ![Len(stack) - 1] = [caller EXCEPT !.i = @ + 2]]
    /\ UNCHANGED <<input, root, nInput, rules, outputNode, status, result, pass, firstOutput>>

\* the nested call returns: append &nestedOutputNode, break
ReturnNested ==
    /\ Running
    /\ Top.pc = "loop"
    /\ Top.r > Len(Top.rules)
    /\ Len(stack) > 1
    /\ LET caller == stack[Len(stack) - 1]
       IN  /\ heap' = AppendContent(heap, caller.inputNode, caller.outputNode, Top.outputNode)
           /\ stack' = [SubSeq(stack, 1, Len(stack) - 1) EXCEPT
                          ![Len(stack) - 1] = [caller EXCEPT !.r = @ + 1, !.i = 0]]
    /\ UNCHANGED <<input, root, nInput, rules, outputNode, status, result, pass, firstOutput>>

\* the outermost call returns
ReturnTop ==
    /\ Running
    /\ Top.pc = "loop"
    /\ Top.r > Len(Top.rules)
    /\ Len(stack) = 1
    /\ stack' = <<>>
    /\ status' = "filtered"
    /\ UNCHANGED <<input, heap, root, nInput, rules, outputNode, result, pass, firstOutput>>

FilterStep ==
    \/ EnterFatal
    \/ EnterMapping
    \/ ScanMiss
    \/ ScanExhausted
    \/ MatchLeaf
    \/ MatchNested
    \/ ReturnNested
    \/ ReturnTop

Next ==
    \/ TrimEmpty
    \/ TrimCall
    \/ TrimReturn
    \/ FilterStep

Spec == Init /\ [][Next]_vars

(***************************************************************************)
(* The projection applied a second time, with the same rules, to the node  *)
(* the first application produced.                                         *)
(***************************************************************************)
Reproject ==
    /\ status = "returned"
    /\ pass = 1
    /\ pass' = 2
    /\ firstOutput' = outputNode
    /\ heap' = Append(heap, ZeroNode)
    /\ outputNode' = Len(heap) + 1
    /\ stack' = <<Frame(rules, outputNode, Len(heap) + 1)>>
    /\ status' = "filtering"
    /\ UNCHANGED <<input, root, nInput, rules, result>>

NextTwice ==
    \/ Next
    \/ Reproject

SpecTwice == Init /\ [][NextTwice]_vars

(***************************************************************************)
(* The projection as a function on trees: what filterByRules builds for a  *)
(* rule list and a mapping.                                                *)
(***************************************************************************)
TreePairs(t) == Len(t.Content) \div 2
TreeHasKey(t, key) == \E j \in 1..TreePairs(t) : t.Content[2 * j - 1].Value = key
TreeFirstPair(t, key) ==
    CHOOSE j \in 1..TreePairs(t) :
        /\ t.Content[2 * j - 1].Value = key
        /\ \A k \in 1..(j - 1) : t.Content[2 * k - 1].Value # key

RECURSIVE Project(_, _)
RECURSIVE ProjectContent(_, _)
Project(rs, t) == Node("MappingNode", t.Style, "", "", ProjectContent(rs, t))
ProjectContent(rs, t) ==
    IF rs = <<>> THEN <<>>
    ELSE LET rule == Head(rs)
             f == TreeFirstPair(t, rule.Key)
             entry == IF ~TreeHasKey(t, rule.Key) THEN <<>>
                      ELSE IF HasNested(rule)
                           THEN <<t.Content[2 * f - 1], Project(rule.Include, t.Content[2 * f])>>
                           ELSE <<t.Content[2 * f - 1], t.Content[2 * f]>>
         IN  entry \o ProjectContent(Tail(rs), t)

(***************************************************************************)
(* Reading the heap.                                                       *)
(***************************************************************************)
NumPairs(h, p) == Len(h[p].Content) \div 2
KeyAt(h, p, j) == h[h[p].Content[2 * j - 1]].Value
KeyPtrAt(h, p, j) == h[p].Content[2 * j - 1]
ValuePtrAt(h, p, j) == h[p].Content[2 * j]
Present(h, p, key) == \E j \in 1..NumPairs(h, p) : KeyAt(h, p, j) = key
FirstPair(h, p, key) ==
    CHOOSE j \in 1..NumPairs(h, p) :
        /\ KeyAt(h, p, j) = key
        /\ \A k \in 1..(j - 1) : KeyAt(h, p, k) # key
OutKeys(h, p) == [j \in 1..NumPairs(h, p) |-> KeyAt(h, p, j)]
InputKeys(h, p) == { KeyAt(h, p, j) : j \in 1..NumPairs(h, p) }
RuleKeys(rs) == [j \in 1..Len(rs) |-> rs[j].Key]

\* The rules of rs whose key the mapping at p holds, in declaration order.
MatchedRules(h, rs, p) ==
    LET Matched(rule) == Present(h, p, rule.Key)
    IN  SelectSeq(rs, Matched)

\* The place, among the matched rules, of rule j.
OutPos(h, rs, p, j) == Cardinality({ k \in 1..j : Present(h, p, rs[k].Key) })

PairwiseDistinct(s) == \A j, k \in 1..Len(s) : j # k => s[j] # s[k]

RECURSIVE DistinctRuleKeys(_)
DistinctRuleKeys(rs) ==
    /\ PairwiseDistinct(RuleKeys(rs))
    /\ \A j \in 1..Len(rs) : DistinctRuleKeys(rs[j].Include)

\* A rule with nested rules meets, at some depth, a value that is no mapping.
RECURSIVE MatchedMismatch(_, _, _)
MatchedMismatch(h, rs, p) ==
    /\ h[p].Kind = "MappingNode"
    /\ \E j \in 1..Len(rs) :
          /\ HasNested(rs[j])
          /\ Present(h, p, rs[j].Key)
          /\ LET v == ValuePtrAt(h, p, FirstPair(h, p, rs[j].Key))
             IN  \/ h[v].Kind # "MappingNode"
                 \/ MatchedMismatch(h, rs[j].Include, v)

\* Every (rule list, input mapping, output mapping) of a finished projection:
\* the outermost call and one per matched rule with nested rules.
RECURSIVE Levels(_, _, _, _)
Levels(h, rs, inp, out) ==
    {[rules |-> rs, inp |-> inp, out |-> out]}
      \cup UNION {
             IF /\ HasNested(rs[j])
                /\ Present(h, inp, rs[j].Key)
                /\ 2 * OutPos(h, rs, inp, j) <= Len(h[out].Content)
             THEN Levels(h, rs[j].Include,
                         ValuePtrAt(h, inp, FirstPair(h, inp, rs[j].Key)),
                         ValuePtrAt(h, out, OutPos(h, rs, inp, j)))
             ELSE {}
             : j \in 1..Len(rs) }

Finished == pass = 1 /\ status \in {"filtered", "returned"}
Called == pass = 1 /\ status \notin {"parsed", "error"}
AllLevels == Levels(heap, rules, root, outputNode)
InputTop == input.Content[1]
NestedLevels == { L \in AllLevels : L.out # outputNode }

(***************************************************************************)
(* Claims.                                                                 *)
(***************************************************************************)

\* C1: the keys of every mapping the projection returns, outermost and
\* nested, are the rule keys in declaration order restricted to the keys the
\* corresponding input mapping holds.
KeyOrder ==
    Finished =>
        \A L \in AllLevels :
            /\ Len(heap[L.out].Content) % 2 = 0
            /\ OutKeys(heap, L.out) = RuleKeys(MatchedRules(heap, L.rules, L.inp))

\* A nested output lists b before a where the input mapping lists a before b.
KeyOrderWitness ==
    /\ Finished
    /\ \E L \in NestedLevels :
          /\ OutKeys(heap, L.out) = <<"b", "a">>
          /\ OutKeys(heap, L.inp) = <<"a", "b">>

\* C2: a rule with nested rules matched against a value that is no mapping
\* ends the invocation in the fatal error; nothing is returned and the
\* projection cannot stop anywhere else.
MismatchFatal ==
    (Called /\ MatchedMismatch(heap, rules, root)) =>
        /\ status \in {"filtering", "fatal"}
        /\ result = 0
        /\ (status = "filtering" => ENABLED FilterStep)

\* The mismatch is met two levels below the outermost call.
MismatchFatalWitness ==
    /\ pass = 1
    /\ status = "fatal"
    /\ Len(stack) = 3
    /\ MatchedMismatch(heap, rules, root)

\* C3: a rule whose key the input mapping lacks adds no entry and raises no
\* error, with or without nested rules; when no rule matches, the call
\* succeeds with a mapping of empty content.
UnmatchedRule ==
    /\ (pass = 1 /\ status = "fatal") =>
          (heap[root].Kind # "MappingNode" \/ MatchedMismatch(heap, rules, root))
    /\ Finished =>
          \A L \in AllLevels :
              /\ NumPairs(heap, L.out) = Len(MatchedRules(heap, L.rules, L.inp))
              /\ \A j \in 1..NumPairs(heap, L.out) :
                    KeyAt(heap, L.out, j) \in InputKeys(heap, L.inp)
              /\ MatchedRules(heap, L.rules, L.inp) = <<>> =>
                    /\ heap[L.out].Kind = "MappingNode"
                    /\ heap[L.out].Content = <<>>

\* A rule with nested rules goes unmatched against a non-empty mapping and
\* the result is the empty mapping.
UnmatchedRuleWitness ==
    /\ Finished
    /\ NumPairs(heap, root) > 0
    /\ \E j \in 1..Len(rules) :
          HasNested(rules[j]) /\ ~Present(heap, root, rules[j].Key)
    /\ heap[outputNode].Kind = "MappingNode"
    /\ heap[outputNode].Content = <<>>

\* C4: for a matched rule without nested rules, the output value is the
\* matched input value node itself, and the tree below it is the input's.
RECURSIVE LeafCopied(_, _, _, _, _)
LeafCopied(h, rs, inp, out, t) ==
    \A j \in 1..Len(rs) :
        Present(h, inp, rs[j].Key) =>
            LET pos == OutPos(h, rs, inp, j)
                f == FirstPair(h, inp, rs[j].Key)
            IN  /\ 2 * pos <= Len(h[out].Content)
                /\ IF HasNested(rs[j])
                   THEN LeafCopied(h, rs[j].Include, ValuePtrAt(h, inp, f),
                                   ValuePtrAt(h, out, pos), t.Content[2 * f])
                   ELSE /\ ValuePtrAt(h, out, pos) = ValuePtrAt(h, inp, f)
                        /\ TreeOf(h, ValuePtrAt(h, out, pos)) = t.Content[2 * f]

LeafCopy == Finished => LeafCopied(heap, rules, root, outputNode, InputTop)

\* A rule below a rule with nested rules copies a mapping that has content.
LeafCopyWitness ==
    /\ Finished
    /\ \E L \in NestedLevels :
          /\ ~HasNested(L.rules[1])
          /\ NumPairs(heap, L.out) = 1
          /\ heap[ValuePtrAt(heap, L.out, 1)].Kind = "MappingNode"
          /\ heap[ValuePtrAt(heap, L.out, 1)].Content # <<>>

\* What encoder.Encode writes for a node tree: the tag of a mapping or of a
\* sequence is implicit in its kind and is not written.
RECURSIVE Encode(_)
Encode(t) ==
    [t EXCEPT !.Tag = IF t.Kind \in {"MappingNode", "SequenceNode"} THEN "" ELSE @,
              !.Content = [j \in 1..Len(t.Content) |-> Encode(t.Content[j])]]

\* C5 as stated: applying the same rules to the output succeeds and yields
\* the same document.
Idempotent ==
    pass = 2 =>
        /\ status # "fatal"
        /\ status \in {"filtered", "returned"} =>
              Encode(TreeOf(heap, outputNode)) = Encode(TreeOf(heap, firstOutput))

\* C5 amended: the same, for rule forests whose keys are pairwise distinct
\* within every rule list.
IdempotentDistinctKeys == DistinctRuleKeys(rules) => Idempotent

\* The second application has finished on an output holding a nested,
\* non-empty projected mapping.
IdempotentWitness ==
    /\ pass = 2
    /\ status = "filtered"
    /\ DistinctRuleKeys(rules)
    /\ \E j \in 1..NumPairs(heap, firstOutput) :
          /\ ValuePtrAt(heap, firstOutput, j) > nInput
          /\ heap[ValuePtrAt(heap, firstOutput, j)].Content # <<>>

\* C6: at every level the output holds exactly the keys that a rule of the
\* level names and the input mapping holds, and under a rule with nested
\* rules the value is the projection of the matched value.
ExactSelection ==
    Finished =>
        \A L \in AllLevels :
            /\ InputKeys(heap, L.out) =
                 { L.rules[j].Key : j \in 1..Len(L.rules) } \cap InputKeys(heap, L.inp)
            /\ \A j \in 1..Len(L.rules) :
                  (HasNested(L.rules[j]) /\ Present(heap, L.inp, L.rules[j].Key)) =>
                      LET pos == OutPos(heap, L.rules, L.inp, j)
                          f == FirstPair(heap, L.inp, L.rules[j].Key)
                      IN  /\ 2 * pos <= Len(heap[L.out].Content)
                          /\ TreeOf(heap, ValuePtrAt(heap, L.out, pos)) =
                               Project(L.rules[j].Include,
                                       TreeOf(heap, ValuePtrAt(heap, L.inp, f)))

\* A nested projection drops a key of the matched mapping.
ExactSelectionWitness ==
    /\ Finished
    /\ \E L \in NestedLevels :
          /\ NumPairs(heap, L.inp) = 2
          /\ NumPairs(heap, L.out) = 1
          /\ InputKeys(heap, L.inp) = {"a", "b"}

\* C7: the input nodes stay as parsed, whether the call succeeds or fails;
\* every output mapping is a node of its own allocated by the call; keys and
\* leaf-copied values are the input's nodes.
InputIntact ==
    LET parsed == Load(input, <<>>)
    IN  SubSeq(heap, 1, nInput) = [parsed EXCEPT ![root] = parsed[parsed[root].Content[1]]]

NoMutation ==
    /\ Called => InputIntact
    /\ Finished =>
          /\ \A L \in AllLevels :
                /\ L.out > nInput
                /\ \A j \in 1..NumPairs(heap, L.out) :
                      /\ KeyPtrAt(heap, L.out, j) <= nInput
                      /\ j <= Len(MatchedRules(heap, L.rules, L.inp))
                      /\ HasNested(MatchedRules(heap, L.rules, L.inp)[j])
                           <=> ValuePtrAt(heap, L.out, j) > nInput
          /\ Cardinality({ L.out : L \in AllLevels }) = Cardinality(AllLevels)

\* The output holds both a shared leaf-copied mapping and a nested mapping of
\* its own.
NoMutationWitness ==
    /\ Finished
    /\ NumPairs(heap, outputNode) = 2
    /\ \E j, k \in 1..2 :
          /\ ValuePtrAt(heap, outputNode, j) > nInput
          /\ ValuePtrAt(heap, outputNode, k) <= nInput
          /\ heap[ValuePtrAt(heap, outputNode, k)].Kind = "MappingNode"

\* C8: with a key repeated in the input mapping, a rule emits the key node
\* and the value of the first pair with its key, once, and no error follows
\* from the repetition.
FirstPairWins ==
    /\ Finished =>
          \A L \in AllLevels :
              /\ NumPairs(heap, L.out) = Len(MatchedRules(heap, L.rules, L.inp))
              /\ \A j \in 1..Len(L.rules) :
                    Present(heap, L.inp, L.rules[j].Key) =>
                        LET pos == OutPos(heap, L.rules, L.inp, j)
                            f == FirstPair(heap, L.inp, L.rules[j].Key)
                        IN  /\ 2 * pos <= Len(heap[L.out].Content)
                            /\ KeyPtrAt(heap, L.out, pos) = KeyPtrAt(heap, L.inp, f)
                            /\ ~HasNested(L.rules[j]) =>
                                  ValuePtrAt(heap, L.out, pos) = ValuePtrAt(heap, L.inp, f)
    /\ (Called /\ heap[root].Kind = "MappingNode"
          /\ ~PairwiseDistinct(OutKeys(heap, root))
          /\ ~MatchedMismatch(heap, rules, root)) => status # "fatal"

\* The input mapping holds the matched key twice, with different values.
FirstPairWinsWitness ==
    /\ Finished
    /\ NumPairs(heap, root) = 2
    /\ KeyAt(heap, root, 1) = KeyAt(heap, root, 2)
    /\ TreeOf(heap, ValuePtrAt(heap, root, 1)) # TreeOf(heap, ValuePtrAt(heap, root, 2))
    /\ NumPairs(heap, outputNode) = 1

\* C9: every mapping the projection creates has kind mapping and the style of
\* the input mapping it was projected from, empty or not.
StyleKept ==
    Finished =>
        \A L \in AllLevels :
            /\ heap[L.out].Kind = "MappingNode"
            /\ heap[L.out].Style = heap[L.inp].Style

\* An empty nested output in flow style inside a block-style output.
StyleKeptWitness ==
    /\ Finished
    /\ heap[outputNode].Style = ""
    /\ \E L \in NestedLevels :
          /\ heap[L.out].Content = <<>>
          /\ heap[L.out].Style = "FlowStyle"

\* C10: every mapping built holds complete pairs, at most one per rule, and
\* its keys are pairwise distinct when the keys of its rule list are.
DistinctKeys ==
    Finished =>
        \A L \in AllLevels :
            /\ Len(heap[L.out].Content) % 2 = 0
            /\ NumPairs(heap, L.out) <= Len(L.rules)
            /\ PairwiseDistinct(RuleKeys(L.rules)) => PairwiseDistinct(OutKeys(heap, L.out))

\* Distinct rule keys, an input mapping that repeats a key, one entry out.
DistinctKeysWitness ==
    /\ Finished
    /\ DistinctRuleKeys(rules)
    /\ \E L \in AllLevels :
          /\ ~PairwiseDistinct(OutKeys(heap, L.inp))
          /\ NumPairs(heap, L.out) = 1

====
